---- MODULE Spec2Model ----
(***************************************************************************)
(* Model of datalad_fuse.fsspec.FsspecAdapter: the dataset locator, the    *)
(* registry-handle map, the file-state classifier, the URL candidate       *)
(* generator and the open dispatcher.                                      *)
(*                                                                         *)
(* Paths and URLs are sequences of string tokens, so that the string       *)
(* operations of the code (lower, rstrip, startswith, endswith, normpath,  *)
(* relative_to, concatenation) are computed rather than assumed.           *)
(***************************************************************************)
EXTENDS Integers, Sequences, FiniteSets, TLC

\* ------------------------------------------------------------------ bounds

\* AnnexRepo objects that may be constructed for one dataset root in one run.
MaxHandles == 2
\* Remotes listed by one whereis answer in the candidate-generator runs.
MaxWhereis == 2

\* The size below which a non-symlink entry is looked up in the registry.
SizeThreshold == 1024

\* ------------------------------------------------------- sequence helpers

Last(s) == s[Len(s)]

Front(s) == SubSeq(s, 1, Len(s) - 1)

IsPrefix(p, s) == Len(p) <= Len(s) /\ SubSeq(s, 1, Len(p)) = p

\* s without its first n elements
Drop(s, n) == SubSeq(s, n + 1, Len(s))

Range(s) == {s[i] : i \in DOMAIN s}

RECURSIVE Flatten(_)
Flatten(ss) == IF ss = <<>> THEN <<>> ELSE Head(ss) \o Flatten(Tail(ss))

\* ------------------------------------------------------------- URL strings

\* str.lower() on one token
LowerTok(t) ==
    CASE t = "HTTP://"  -> "http://"
      [] t = "HTTPS://" -> "https://"
      [] t = ".GIT"     -> ".git"
      [] OTHER          -> t

\* str.lower()
lower(s) == [i \in DOMAIN s |-> LowerTok(s[i])]

\* str.rstrip("/")
RECURSIVE rstrip(_)
rstrip(s) ==
    IF s # <<>> /\ Last(s) = "/" THEN rstrip(Front(s)) ELSE s

\* str.endswith("/.git")
endswith_git(s) == Len(s) >= 2 /\ s[Len(s) - 1] = "/" /\ s[Len(s)] = ".git"

\* The scheme test without the lower-casing.
is_http_url_exact(s) == s # <<>> /\ s[1] \in {"http://", "https://"}

\* is_http_url
is_http_url(s) == s # <<>> /\ lower(s)[1] \in {"http://", "https://"}

\* "no value" for an optional URL or path (Python None)
None == <<>>

\* "no value" for remote.<name>.annex-uuid
NoUuid == ""

\* ------------------------------------------------- URL candidate generator

\* git annex examinekey --format=annex/objects/${hashdirmixed}${key}/${key}
examinekey_mixed(key) == <<"annex/objects/", "hashdirmixed/", key, "/", key>>

\* git annex examinekey --format=annex/objects/${hashdirlower}${key}/${key}
examinekey_lower(key) == <<"annex/objects/", "hashdirlower/", key, "/", key>>

\* annex.config.rewrite_url: the url.<base>.insteadOf rules of the dataset,
\* each a pair <<prefix, replacement>>; the longest matching prefix wins.
rewrite_url(rules, url) ==
    LET hits == {r \in Range(rules) : IsPrefix(r[1], url)}
    IN  IF hits = {} THEN url
        ELSE LET best == CHOOSE r \in hits :
                            \A q \in hits : Len(q[1]) <= Len(r[1])
             IN  best[2] \o Drop(url, Len(best[1]))

\* The loop over annex.get_remotes(): uuid2remote_url after the first n
\* remotes, as a set of <<uuid, url>> pairs with one pair per uuid (a later
\* remote with the same uuid replaces the earlier one).
RECURSIVE uuid2remote_url(_, _, _)
uuid2remote_url(remotes, rules, n) ==
    IF n = 0 THEN {}
    ELSE LET prev == uuid2remote_url(remotes, rules, n - 1)
             r    == remotes[n]
         IN  IF r.uuid = NoUuid \/ r.url = None THEN prev
             ELSE {p \in prev : p[1] # r.uuid}
                    \cup {<<r.uuid, rewrite_url(rules, r.url)>>}

\* The explicitly recorded URLs of one whereis answer that are yielded first.
KnownUrls(whereis) ==
    Flatten([i \in DOMAIN whereis |->
                SelectSeq(whereis[i].urls, is_http_url)])

\* The remote_uuids list: the remotes of the whereis answer, in its order.
remote_uuids(whereis) == [i \in DOMAIN whereis |-> whereis[i].uuid]

\* The paths tried under one remote's base URL, each tagged with the hash
\* bucketing it uses and whether it is nested under ".git/".
\* The paths with hashdirlower first for every base URL.
PathsForLowerFirst(base_url, path_mixed, path_lower) ==
    IF endswith_git(rstrip(lower(base_url)))
    THEN << [p |-> path_lower, bucket |-> "lower", nested |-> FALSE],
            [p |-> path_mixed, bucket |-> "mixed", nested |-> FALSE] >>
    ELSE << [p |-> path_lower, bucket |-> "lower", nested |-> FALSE],
            [p |-> path_mixed, bucket |-> "mixed", nested |-> FALSE],
            [p |-> <<".git", "/">> \o path_lower, bucket |-> "lower",
             nested |-> TRUE],
            [p |-> <<".git", "/">> \o path_mixed, bucket |-> "mixed",
             nested |-> TRUE] >>

\* The paths tried under a base URL, in the order they are tried.
PathsFor(base_url, path_mixed, path_lower) ==
    IF endswith_git(rstrip(lower(base_url)))
    THEN << [p |-> path_mixed, bucket |-> "mixed", nested |-> FALSE],
            [p |-> path_lower, bucket |-> "lower", nested |-> FALSE] >>
    ELSE << [p |-> path_lower, bucket |-> "lower", nested |-> FALSE],
            [p |-> path_mixed, bucket |-> "mixed", nested |-> FALSE],
            [p |-> <<".git", "/">> \o path_lower, bucket |-> "lower",
             nested |-> TRUE],
            [p |-> <<".git", "/">> \o path_mixed, bucket |-> "mixed",
             nested |-> TRUE] >>

\* The synthesis without the test that the base URL is HTTP(S).
SynthForAnyScheme(ru, u2url, key) ==
    LET hit == {p \in u2url : p[1] = ru}
    IN  IF hit = {} THEN <<>>
        ELSE LET base_url == (CHOOSE p \in hit : TRUE)[2]
                 paths == PathsFor(base_url, examinekey_mixed(key),
                                   examinekey_lower(key))
             IN  [i \in DOMAIN paths |->
                     [url    |-> rstrip(base_url) \o <<"/">> \o paths[i].p,
                      ru     |-> ru,
                      gitdir |-> endswith_git(rstrip(lower(base_url))),
                      bucket |-> paths[i].bucket,
                      nested |-> paths[i].nested]]

\* The candidates synthesized for the remote with uuid ru (none when the
\* remote has no configured URL or the URL is not HTTP(S)).
SynthFor(ru, u2url, key) ==
    LET hit == {p \in u2url : p[1] = ru}
    IN  IF hit = {} THEN <<>>
        ELSE LET base_url == (CHOOSE p \in hit : TRUE)[2]
                 paths == PathsFor(base_url, examinekey_mixed(key),
                                   examinekey_lower(key))
             IN  IF is_http_url(base_url)
                 THEN [i \in DOMAIN paths |->
                         [url    |-> rstrip(base_url) \o <<"/">> \o paths[i].p,
                          ru     |-> ru,
                          gitdir |-> endswith_git(rstrip(lower(base_url))),
                          bucket |-> paths[i].bucket,
                          nested |-> paths[i].nested]]
                 ELSE <<>>

\* The synthesized candidates of get_urls, in the order they are yielded,
\* each with the remote and the path form it was built from.
SynthUrls(reg, key) ==
    LET rus   == remote_uuids(reg.whereis)
        u2url == uuid2remote_url(reg.remotes, reg.insteadOf, Len(reg.remotes))
    IN  Flatten([i \in DOMAIN rus |-> SynthFor(rus[i], u2url, key)])

\* FsspecAdapter.get_urls: the whole sequence the generator yields.
get_urls(reg, key) ==
    LET synth == SynthUrls(reg, key)
    IN  KnownUrls(reg.whereis) \o [i \in DOMAIN synth |-> synth[i].url]

\* ------------------------------------------------------------- file system

\* The directories of the modelled tree.  Top is the adapter's root
\* (FsspecAdapter.root); Above encloses it and Out lies beside it.
Above == <<"d">>
Top   == <<"d", "top">>
Sub   == <<"d", "top", "sub">>
Out   == <<"d", "out">>
Dirs  == {Above, Top, Sub, Out}

Keys == {"K1", "K2", "K3"}

\* Where git-annex keeps the content of key k in dataset ds.
ObjectsDir(ds) == ds \o <<".git", "annex", "objects">>
ObjectPath(ds, k) == ObjectsDir(ds) \o <<"XX", "YY", k, k>>

\* The entries that open and is_under_annex are called with.  kind and size
\* are what lstat reports, link is what readlink returns, regkey is the key
\* the dataset's registry records for the entry ("" when it records none).
FileA   == Top \o <<"a">>
FileS   == Top \o <<"s">>
FileBig == Top \o <<"big">>
FileSub == Sub \o <<"a">>
FileOut == Out \o <<"x">>
\* A regular file of exactly the threshold size whose content the registry
\* tracks, and a small regular file the registry does not track.
FileEdge == Top \o <<"edge">>
FileTxt  == Top \o <<"t">>
Paths   == {FileA, FileS, FileBig, FileSub, FileOut, FileEdge, FileTxt}

Entry(kind, size, link, regkey) ==
    [kind |-> kind, size |-> size, link |-> link, regkey |-> regkey]

FileSystem ==
    (FileA   :> Entry("symlink", 40, <<".git", "annex", "objects", "XX", "YY", "K1", "K1">>, "K1"))
 @@ (FileS   :> Entry("regular", 100, <<>>, "K2"))
 @@ (FileBig :> Entry("regular", 2048, <<>>, ""))
 @@ (FileSub :> Entry("symlink", 40, <<"..", "sub", ".git", "annex", "objects", "XX", "YY", "K3", "K3">>, "K3"))
 @@ (FileOut :> Entry("regular", 100, <<>>, ""))
 @@ (FileEdge :> Entry("regular", 1024, <<>>, "K2"))
 @@ (FileTxt :> Entry("regular", 10, <<>>, ""))

\* os.path.normpath on a token path: "." is dropped, ".." removes the
\* segment before it.
RECURSIVE normpath_from(_, _)
normpath_from(done, rest) ==
    IF rest = <<>> THEN done
    ELSE LET h == Head(rest)
         IN  IF h = "." THEN normpath_from(done, Tail(rest))
             ELSE IF h = ".." /\ done # <<>> /\ Last(done) # ".."
                  THEN normpath_from(Front(done), Tail(rest))
                  ELSE normpath_from(Append(done, h), Tail(rest))

\* The joined path taken as it is, "." and ".." segments kept.
normpath_keep_dots(p) == p

\* os.path.normpath
normpath(p) == normpath_from(<<>>, p)

\* PurePath.relative_to succeeds: other is a (lexical) prefix of p.
is_relative_to(p, other) == IsPrefix(other, p)

\* PurePath.relative_to
relative_to(p, other) == Drop(p, Len(other))

\* datalad.utils.get_dataset_root for the path of a file: the nearest
\* directory above it that holds a repository, None when there is none.
RECURSIVE dataset_root_from(_, _)
dataset_root_from(dsets, dir) ==
    IF dir = <<>> THEN None
    ELSE IF dir \in dsets THEN dir
         ELSE dataset_root_from(dsets, Front(dir))

get_dataset_root(dsets, path) == dataset_root_from(dsets, Front(path))

\* get_dataset_path without the test that the dataset lies under the root.
get_dataset_path_unchecked(dsets, path) ==
    LET dspath == get_dataset_root(dsets, path)
    IN  IF dspath = None
        THEN [err |-> "NotUnderDataLad", dspath |-> None]
        ELSE [err |-> "", dspath |-> dspath]

\* get_dataset_path taking the adapter's root when no dataset is found.
get_dataset_path_fallback(dsets, path) ==
    LET dspath == get_dataset_root(dsets, path)
    IN  IF dspath = None
        THEN [err |-> "", dspath |-> Top]
        ELSE IF ~is_relative_to(dspath, Top)
             THEN [err |-> "NotUnderRoot", dspath |-> None]
             ELSE [err |-> "", dspath |-> dspath]

\* FsspecAdapter.get_dataset_path: the dataset root, or the error raised.
get_dataset_path(dsets, path) ==
    LET dspath == get_dataset_root(dsets, path)
    IN  IF dspath = None
        THEN [err |-> "NotUnderDataLad", dspath |-> None]
        ELSE IF ~is_relative_to(dspath, Top)
             THEN [err |-> "NotUnderRoot", dspath |-> None]
             ELSE [err |-> "", dspath |-> dspath]

\* ------------------------------------------------------------------- state

Threads == {"t1", "t2"}

\* The modes open is called with; the first three are the accepted ones.
Modes == {"r", "rb", "rt", "w"}

\* What fs.open (the caching HTTP file system) does for a URL: it returns a
\* handle, raises FileNotFoundError, or raises another exception.
UrlStatus == {"ok", "notfound", "error"}

VARIABLES
    active,     \* the threads that call into the adapter
    datasets,   \* the directories that hold a repository
    objects,    \* the annex object files present on disk
    reg,        \* per key: the registry's whereis answer and remote config
    remote,     \* per candidate URL: what fs.open does for it
    annexes,    \* FsspecAdapter.annexes: dataset root -> handle
    built,      \* per dataset root: AnnexRepo objects constructed so far
    released,   \* handles whose batched processes __exit__ has cleared
    memo,       \* the lru_cache of get_file_state
    cache,      \* URLs held by the caching file system's store
    frame,      \* per thread: the call it is executing
    urls        \* candidate-generator runs: the sequence get_urls yields

vars == <<active, datasets, objects, reg, remote, annexes, built, released,
          memo, cache, frame, urls>>

NoHandle == [root |-> None, n |-> 0]

NoResult == [kind |-> "none", val |-> "", url |-> None]

Handle(src, url) == [kind |-> "handle", val |-> src, url |-> url]
Error(e)         == [kind |-> "error", val |-> e, url |-> None]
Bool(b)          == [kind |-> "bool", val |-> IF b THEN "True" ELSE "False",
                     url |-> None]

\* A thread's call: the operation and its arguments, the locals of open /
\* is_under_annex (annex, fstate, key), the handle a batched query of the
\* call is in flight on (q), the position in the candidate loop
\* (attempts: the URLs handed to fs.open so far), what the call did (gen:
\* get_urls was called; loc: the built-in open was called) and its result.
IdleFrame ==
    [pc |-> "idle", op |-> "", path |-> None, mode |-> "", dspath |-> None,
     annex |-> NoHandle, q |-> NoHandle, fstate |-> "", key |-> "",
     attempts |-> <<>>, gen |-> FALSE, loc |-> FALSE, result |-> NoResult]

\* The registry answers of the main runs: K1 is recorded at one remote with
\* an explicit URL and an HTTP(S) base URL; K2 and K3 are at no remote.
NoRemotes == [whereis |-> <<>>, remotes |-> <<>>, insteadOf |-> <<>>]

Url1 == <<"https://", "example.org", "/", "data.bin">>

Base1 == <<"https://", "host", "/", "ds", "/", ".git">>

Registry ==
    [k \in Keys |->
        IF k = "K1"
        THEN [whereis   |-> << [uuid |-> "u1", urls |-> <<Url1>>] >>,
              remotes   |-> << [name |-> "origin", uuid |-> "u1",
                                url |-> Base1] >>,
              insteadOf |-> <<>>]
        ELSE NoRemotes]

\* Every URL get_urls can yield in the main runs.
CandidateUrls == UNION {Range(get_urls(Registry[k], k)) : k \in Keys}

InitAdapter ==
    /\ annexes = [d \in Dirs |-> NoHandle]
    /\ built = [d \in Dirs |-> 0]
    /\ released = {}
    /\ memo = {}
    /\ cache = {}
    /\ frame = [t \in Threads |-> IdleFrame]
    /\ urls = [done |-> FALSE, seq |-> <<>>]

\* One caller.  Either any layout of repositories (with remotes that hold
\* nothing), or the full layout with any behaviour of the remotes.
AllDatasets == {Top, Sub, Out}

Init ==
    /\ active = {"t1"}
    /\ \/ /\ datasets \in SUBSET Dirs
          /\ remote = [u \in CandidateUrls |-> "notfound"]
          /\ objects = {}
       \/ /\ datasets = AllDatasets
          /\ remote \in [CandidateUrls -> UrlStatus]
          /\ objects \in SUBSET {ObjectPath(Top, "K1"), ObjectPath(Top, "K2")}
    /\ reg = Registry
    /\ InitAdapter

\* Two concurrent callers on a fixed layout.
InitConc ==
    /\ active = Threads
    /\ datasets = AllDatasets
    /\ objects = {}
    /\ reg = Registry
    /\ remote = [u \in CandidateUrls |-> "notfound"]
    /\ InitAdapter

\* ------------------------------------------------------------ file states

NOT_ANNEXED == "NOT_ANNEXED"
NO_CONTENT  == "NO_CONTENT"
HAS_CONTENT == "HAS_CONTENT"

\* Path.exists() / the built-in open: the entry or object file is on disk.
exists(p) == p \in Paths \/ p \in objects

\* get_file_state for a symbolic link: decided from the link target alone.
SymlinkState(dataset_path, p) ==
    LET target == normpath(Front(p) \o FileSystem[p].link)
    IN  IF ~is_relative_to(target, ObjectsDir(dataset_path))
        THEN [fstate |-> NOT_ANNEXED, key |-> ""]
        ELSE IF exists(target)
             THEN [fstate |-> HAS_CONTENT, key |-> Last(target)]
             ELSE [fstate |-> NO_CONTENT, key |-> Last(target)]

\* The batched registry queries of get_file_state, answered for entry p.
is_under_annex_reply(p) == FileSystem[p].regkey # ""

get_file_key_reply(p) == FileSystem[p].regkey

file_has_content_reply(dataset_path, p) ==
    ObjectPath(dataset_path, FileSystem[p].regkey) \in objects

\* The built-in open(filepath): a dangling symbolic link cannot be opened.
LocalOpen(p) ==
    IF FileSystem[p].kind = "symlink"
       /\ ~exists(normpath(Front(p) \o FileSystem[p].link))
    THEN Error("FileNotFoundError")
    ELSE Handle("local", p)

\* A cache that stores NOT_ANNEXED whatever was computed.
MemoStoreNotAnnexed(ds, rel, st, key) ==
    IF {m \in memo : m.ds = ds /\ m.rel = rel} # {} THEN memo
    ELSE memo \cup {[ds |-> ds, rel |-> rel, fstate |-> "NOT_ANNEXED",
                     key |-> ""]}

\* functools.lru_cache around get_file_state: the stored result for the
\* arguments, if any; a result computed while another call stored one for
\* the same arguments is returned but not stored.
MemoHit(ds, rel) == {m \in memo : m.ds = ds /\ m.rel = rel}

MemoStore(ds, rel, st, key) ==
    IF MemoHit(ds, rel) # {} THEN memo
    ELSE memo \cup {[ds |-> ds, rel |-> rel, fstate |-> st, key |-> key]}

\* ----------------------------------------------------------------- actions

CanCall(t) == t \in active /\ frame[t].pc \in {"idle", "done"}

SetFrame(t, f) == frame' = [frame EXCEPT ![t] = f]

Done(f, res) == [f EXCEPT !.pc = "done", !.q = NoHandle, !.result = res]

\* FsspecAdapter.annexize up to the lookup in self.annexes: the dataset
\* root is located; a missing or outside root raises ValueError; a root in
\* the map gives its handle, a root not in it leads to the constructor.
AnnexizeLookup(f) ==
    LET r == get_dataset_path(datasets, f.path)
    IN  IF r.err # "" THEN Done(f, Error(r.err))
        ELSE IF annexes[r.dspath] # NoHandle
             THEN [f EXCEPT !.pc = "classify", !.dspath = r.dspath,
                            !.annex = annexes[r.dspath]]
             ELSE [f EXCEPT !.pc = "construct", !.dspath = r.dspath]

\* The mode check letting a write mode through.
ModeSupportedAlsoWrite(mode) == mode \in {"r", "rb", "rt", "w"}

\* The mode check of open.
ModeSupported(mode) == mode \in {"r", "rb", "rt"}

\* open(filepath, mode): the mode check, then annexize.
CallOpen(t, path, mode) ==
    /\ CanCall(t)
    /\ LET f == [IdleFrame EXCEPT !.op = "open", !.path = path, !.mode = mode]
       IN  IF ~ModeSupported(mode)
           THEN SetFrame(t, Done(f, Error("NotImplementedError")))
           ELSE SetFrame(t, AnnexizeLookup(f))
    /\ UNCHANGED <<active, datasets, objects, reg, remote, annexes, built,
                   released, memo, cache, urls>>

\* is_under_annex(filepath): annexize.
CallIsUnderAnnex(t, path) ==
    /\ CanCall(t)
    /\ SetFrame(t, AnnexizeLookup([IdleFrame EXCEPT !.op = "is_under_annex",
                                                    !.path = path]))
    /\ UNCHANGED <<active, datasets, objects, reg, remote, annexes, built,
                   released, memo, cache, urls>>

\* annexize after the KeyError: AnnexRepo(dspath) is constructed and stored.
Construct(t) ==
    /\ t \in active
    /\ frame[t].pc = "construct"
    /\ built[frame[t].dspath] < MaxHandles
    /\ LET ds == frame[t].dspath
           h  == [root |-> ds, n |-> built[ds] + 1]
       IN  /\ built' = [built EXCEPT ![ds] = @ + 1]
           /\ annexes' = [annexes EXCEPT ![ds] = h]
           /\ SetFrame(t, [frame[t] EXCEPT !.pc = "classify", !.annex = h])
    /\ UNCHANGED <<active, datasets, objects, reg, remote, released, memo,
                   cache, urls>>

\* The frame after get_file_state returned (st, key).
Classified(f, st, key) ==
    [f EXCEPT !.pc = "dispatch", !.q = NoHandle, !.fstate = st, !.key = key]

\* get_file_state(annex.pathobj, relpath) up to its first registry query.
Classify(t) ==
    /\ t \in active
    /\ frame[t].pc = "classify"
    /\ LET f   == frame[t]
           ds  == f.annex.root
           rel == relative_to(f.path, f.dspath)
           p   == ds \o rel
           hit == MemoHit(ds, rel)
       IN  IF hit # {}
           THEN LET m == CHOOSE m \in hit : TRUE
                IN  /\ SetFrame(t, Classified(f, m.fstate, m.key))
                    /\ UNCHANGED <<memo>>
           ELSE IF FileSystem[p].kind # "symlink"
                THEN IF FileSystem[p].size < SizeThreshold
                     THEN IF annexes[ds] = NoHandle
                          THEN /\ SetFrame(t, Done(f, Error("KeyError")))
                               /\ UNCHANGED <<memo>>
                          ELSE /\ SetFrame(t, [f EXCEPT
                                                 !.pc = "is_under_annex",
                                                 !.q = annexes[ds]])
                               /\ UNCHANGED <<memo>>
                     ELSE /\ SetFrame(t, Classified(f, NOT_ANNEXED, ""))
                          /\ memo' = MemoStore(ds, rel, NOT_ANNEXED, "")
                ELSE LET r == SymlinkState(ds, p)
                     IN  /\ SetFrame(t, Classified(f, r.fstate, r.key))
                         /\ memo' = MemoStore(ds, rel, r.fstate, r.key)
    /\ UNCHANGED <<active, datasets, objects, reg, remote, annexes, built,
                   released, cache, urls>>

\* The answer of is_under_annex ignored: the key is asked for in any case.
IsUnderAnnexReplyIgnored(t) ==
    /\ t \in active
    /\ frame[t].pc = "is_under_annex"
    /\ frame' = [frame EXCEPT ![t].pc = "get_file_key"]
    /\ UNCHANGED <<active, datasets, objects, reg, remote, annexes, built,
                   released, memo, cache, urls>>

\* annex.is_under_annex(relpath, batch=True) answers.
IsUnderAnnexReply(t) ==
    /\ t \in active
    /\ frame[t].pc = "is_under_annex"
    /\ LET f   == frame[t]
           ds  == f.annex.root
           rel == relative_to(f.path, f.dspath)
       IN  IF is_under_annex_reply(f.path)
           THEN /\ SetFrame(t, [f EXCEPT !.pc = "get_file_key"])
                /\ UNCHANGED <<memo>>
           ELSE /\ SetFrame(t, Classified(f, NOT_ANNEXED, ""))
                /\ memo' = MemoStore(ds, rel, NOT_ANNEXED, "")
    /\ UNCHANGED <<active, datasets, objects, reg, remote, annexes, built,
                   released, cache, urls>>

\* annex.get_file_key(relpath, batch=True) answers.
FileKeyReply(t) ==
    /\ t \in active
    /\ frame[t].pc = "get_file_key"
    /\ SetFrame(t, [frame[t] EXCEPT !.pc = "file_has_content",
                                    !.key = get_file_key_reply(frame[t].path)])
    /\ UNCHANGED <<active, datasets, objects, reg, remote, annexes, built,
                   released, memo, cache, urls>>

\* annex.file_has_content(relpath, batch=True) answers.
HasContentReply(t) ==
    /\ t \in active
    /\ frame[t].pc = "file_has_content"
    /\ LET f   == frame[t]
           ds  == f.annex.root
           rel == relative_to(f.path, f.dspath)
           st  == IF file_has_content_reply(ds, f.path)
                  THEN HAS_CONTENT ELSE NO_CONTENT
       IN  /\ SetFrame(t, Classified(f, st, f.key))
           /\ memo' = MemoStore(ds, rel, st, f.key)
    /\ UNCHANGED <<active, datasets, objects, reg, remote, annexes, built,
                   released, cache, urls>>

\* Dispatch with the candidate loop entered whenever has_content is false.
DispatchNotHasContent(t) ==
    /\ t \in active
    /\ frame[t].pc = "dispatch"
    /\ LET f == frame[t]
       IN  IF f.op = "is_under_annex"
           THEN SetFrame(t, Done(f, Bool(f.fstate # NOT_ANNEXED)))
           ELSE IF f.fstate # HAS_CONTENT
                THEN SetFrame(t, [f EXCEPT !.pc = "whereis", !.gen = TRUE,
                                           !.q = f.annex])
                ELSE SetFrame(t, Done([f EXCEPT !.loc = TRUE],
                                      LocalOpen(f.path)))
    /\ UNCHANGED <<active, datasets, objects, reg, remote, annexes, built,
                   released, memo, cache, urls>>

\* After get_file_state: is_under_annex returns; open either opens the path
\* itself or, for NO_CONTENT, starts iterating get_urls, whose first step is
\* the batched whereis query on the caller's handle.
Dispatch(t) ==
    /\ t \in active
    /\ frame[t].pc = "dispatch"
    /\ LET f == frame[t]
       IN  IF f.op = "is_under_annex"
           THEN SetFrame(t, Done(f, Bool(f.fstate # NOT_ANNEXED)))
           ELSE IF f.fstate = NO_CONTENT
                THEN SetFrame(t, [f EXCEPT !.pc = "whereis", !.gen = TRUE,
                                           !.q = f.annex])
                ELSE SetFrame(t, Done([f EXCEPT !.loc = TRUE],
                                      LocalOpen(f.path)))
    /\ UNCHANGED <<active, datasets, objects, reg, remote, annexes, built,
                   released, memo, cache, urls>>

\* annex.whereis(filepath, output="full", batch=True) answers.
WhereisReply(t) ==
    /\ t \in active
    /\ frame[t].pc = "whereis"
    /\ SetFrame(t, [frame[t] EXCEPT !.pc = "try_known", !.q = NoHandle])
    /\ UNCHANGED <<active, datasets, objects, reg, remote, annexes, built,
                   released, memo, cache, urls>>

\* The candidates the generator has yielded or can still yield in the
\* phase the call is in: the explicit URLs before the examinekey queries,
\* all of them after.
Yieldable(f) ==
    IF f.pc = "try_known" THEN KnownUrls(reg[f.key].whereis)
    ELSE get_urls(reg[f.key], f.key)

\* The loop body returning the handle without regard to the outcome.
AfterAttemptAlwaysReturns(f, url, outcome) ==
    Done([f EXCEPT !.attempts = Append(@, url)], Handle("remote", url))

\* What the body of the candidate loop does with the outcome of
\* self.fs.open(url, mode, **kwargs): a handle is returned, a
\* FileNotFoundError is logged and the loop goes on, anything else
\* propagates.
AfterAttempt(f, url, outcome) ==
    LET g == [f EXCEPT !.attempts = Append(@, url)]
    IN  CASE outcome = "ok"       -> Done(g, Handle("remote", url))
          [] outcome = "notfound" -> g
          [] OTHER                -> Done(g, Error("Exception"))

\* One pass of the candidate loop: the next URL is handed to fs.open.
TryUrl(t) ==
    /\ t \in active
    /\ frame[t].pc \in {"try_known", "try_synth"}
    /\ Len(frame[t].attempts) < Len(Yieldable(frame[t]))
    /\ LET f   == frame[t]
           url == Yieldable(f)[Len(f.attempts) + 1]
       IN  /\ SetFrame(t, AfterAttempt(f, url, remote[url]))
           /\ cache' = IF remote[url] = "ok" THEN cache \cup {url} ELSE cache
    /\ UNCHANGED <<active, datasets, objects, reg, remote, annexes, built,
                   released, memo, urls>>

\* The explicit URLs are used up: the generator goes on to the first
\* examinekey query (hashdirmixed).
KnownExhausted(t) ==
    /\ t \in active
    /\ frame[t].pc = "try_known"
    /\ Len(frame[t].attempts) = Len(Yieldable(frame[t]))
    /\ SetFrame(t, [frame[t] EXCEPT !.pc = "examinekey_mixed",
                                    !.q = frame[t].annex])
    /\ UNCHANGED <<active, datasets, objects, reg, remote, annexes, built,
                   released, memo, cache, urls>>

\* examinekey (hashdirmixed) answers; examinekey (hashdirlower) is sent.
ExamineMixedReply(t) ==
    /\ t \in active
    /\ frame[t].pc = "examinekey_mixed"
    /\ SetFrame(t, [frame[t] EXCEPT !.pc = "examinekey_lower"])
    /\ UNCHANGED <<active, datasets, objects, reg, remote, annexes, built,
                   released, memo, cache, urls>>

\* examinekey (hashdirlower) answers; the remotes' URLs are read from the
\* configuration and the synthesized candidates follow.
ExamineLowerReply(t) ==
    /\ t \in active
    /\ frame[t].pc = "examinekey_lower"
    /\ SetFrame(t, [frame[t] EXCEPT !.pc = "try_synth", !.q = NoHandle])
    /\ UNCHANGED <<active, datasets, objects, reg, remote, annexes, built,
                   released, memo, cache, urls>>

\* The generator is exhausted: IOError("Could not find a usable URL").
Exhausted(t) ==
    /\ t \in active
    /\ frame[t].pc = "try_synth"
    /\ Len(frame[t].attempts) = Len(Yieldable(frame[t]))
    /\ SetFrame(t, Done(frame[t], Error("IOError")))
    /\ UNCHANGED <<active, datasets, objects, reg, remote, annexes, built,
                   released, memo, cache, urls>>

\* __exit__ clearing the batched processes but leaving the map as it is.
ExitKeepMap(t) ==
    /\ t \in active /\ frame[t].pc \in {"idle", "done"}
    /\ released' = released \cup ({annexes[d] : d \in Dirs} \ {NoHandle})
    /\ frame' = [frame EXCEPT ![t] =
                    [IdleFrame EXCEPT !.pc = "done", !.op = "exit"]]
    /\ UNCHANGED <<active, datasets, objects, reg, remote, annexes, built,
                   memo, cache, urls>>

\* __exit__: every handle's batched processes are cleared, then the map.
Exit(t) ==
    /\ CanCall(t)
    /\ released' = released \cup ({annexes[d] : d \in Dirs} \ {NoHandle})
    /\ annexes' = [d \in Dirs |-> NoHandle]
    /\ SetFrame(t, Done([IdleFrame EXCEPT !.op = "exit"], NoResult))
    /\ UNCHANGED <<active, datasets, objects, reg, remote, built, memo,
                   cache, urls>>

\* clear(): self.fs.clear_cache().
Clear(t) ==
    /\ CanCall(t)
    /\ cache' = {}
    /\ SetFrame(t, Done([IdleFrame EXCEPT !.op = "clear"], NoResult))
    /\ UNCHANGED <<active, datasets, objects, reg, remote, annexes, built,
                   released, memo, urls>>

\* Outside the adapter: the content of a key is fetched into, or dropped
\* from, the top dataset.
Mutable == {ObjectPath(Top, "K1")}

ContentGet(o) ==
    /\ o \notin objects
    /\ objects' = objects \cup {o}
    /\ UNCHANGED <<active, datasets, reg, remote, annexes, built, released,
                   memo, cache, frame, urls>>

ContentDrop(o) ==
    /\ o \in objects
    /\ objects' = objects \ {o}
    /\ UNCHANGED <<active, datasets, reg, remote, annexes, built, released,
                   memo, cache, frame, urls>>

\* The steps of a call in progress.
Step(t) ==
    \/ Construct(t)
    \/ Classify(t)
    \/ IsUnderAnnexReply(t)
    \/ FileKeyReply(t)
    \/ HasContentReply(t)
    \/ Dispatch(t)
    \/ WhereisReply(t)
    \/ TryUrl(t)
    \/ KnownExhausted(t)
    \/ ExamineMixedReply(t)
    \/ ExamineLowerReply(t)
    \/ Exhausted(t)

\* Calls of open and is_under_annex with any path and mode.
Next ==
    \/ \E t \in Threads, p \in Paths, m \in Modes : CallOpen(t, p, m)
    \/ \E t \in Threads, p \in Paths : CallIsUnderAnnex(t, p)
    \/ \E t \in Threads : Step(t)

\* One caller at a time, over every layout and remote behaviour.
Spec == Init /\ [][Next]_vars

\* The paths two concurrent callers ask for: two entries of the top
\* dataset and one of the subdataset.
ConcPaths == {FileA, FileS, FileSub}

NextConc ==
    \/ \E t \in Threads, p \in ConcPaths : CallOpen(t, p, "rb")
    \/ \E t \in Threads, p \in ConcPaths : CallIsUnderAnnex(t, p)
    \/ \E t \in Threads : Step(t)

\* Two callers interleaved.
SpecConc == InitConc /\ [][NextConc]_vars

\* One caller, with teardown, cache clearing and content that comes and
\* goes between the calls.
NextLife ==
    \/ \E t \in Threads, p \in Paths : CallOpen(t, p, "rb")
    \/ \E t \in Threads, p \in Paths : CallIsUnderAnnex(t, p)
    \/ \E t \in Threads : Step(t)
    \/ \E t \in Threads : Exit(t)
    \/ \E t \in Threads : Clear(t)
    \/ \E o \in Mutable : ContentGet(o)
    \/ \E o \in Mutable : ContentDrop(o)

InitLife ==
    /\ active = {"t1"}
    /\ datasets = AllDatasets
    /\ objects = {}
    /\ reg = Registry
    /\ remote \in [CandidateUrls -> {"ok", "notfound"}]
    /\ InitAdapter

SpecLife == InitLife /\ [][NextLife]_vars

\* Two callers of is_under_annex, over every combination of content present
\* in the top dataset: the classifier alone.
InitClassify ==
    /\ active = Threads
    /\ datasets = AllDatasets
    /\ objects \in SUBSET {ObjectPath(Top, "K1"), ObjectPath(Top, "K2")}
    /\ reg = Registry
    /\ remote = [u \in CandidateUrls |-> "notfound"]
    /\ InitAdapter

ClassifyStep(t) ==
    \/ Construct(t)
    \/ Classify(t)
    \/ IsUnderAnnexReply(t)
    \/ FileKeyReply(t)
    \/ HasContentReply(t)
    \/ Dispatch(t)

NextClassify ==
    \/ \E t \in Threads, p \in Paths : CallIsUnderAnnex(t, p)
    \/ \E t \in Threads : ClassifyStep(t)

SpecClassify == InitClassify /\ [][NextClassify]_vars

\* Two callers interleaved, either of which may also run __exit__ while the
\* other is inside a call.
NextTeardown ==
    \/ NextConc
    \/ \E t \in Threads : Exit(t)

SpecTeardown == InitConc /\ [][NextTeardown]_vars

\* ------------------------------------------- candidate-generator runs

Uuids == {"u1", "u2", "u3"}

Url2   == <<"HTTP://", "mirror.example.org", "/", "data.bin">>
FtpUrl == <<"ftp://", "example.org", "/", "data.bin">>

\* The urls lists one remote of a whereis answer can carry.
UrlLists == { <<>>, <<Url1>>, <<FtpUrl, Url2>> }

\* The values of remote.<name>.url: a ".git" directory, the same in upper
\* case with a trailing slash, a work tree with a trailing slash, a bare
\* repository, an ssh URL, or none.
BaseGit   == Base1
BaseGitUp == <<"HTTPS://", "host", "/", "ds", "/", ".GIT", "/">>
BaseTree  == <<"http://", "host", "/", "tree", "/">>
BaseSsh   == <<"ssh://", "host", "/", "ds">>
BaseUrls  == {BaseGit, BaseGitUp, BaseTree, BaseSsh, None}

\* The url.<base>.insteadOf configurations: none, or ssh rewritten to https.
RuleSets == { <<>>, << <<<<"ssh://">>, <<"https://">>>> >> }

\* The sequences over S without repetition, of length at most n.
RECURSIVE InjSeqs(_, _)
InjSeqs(S, n) ==
    IF n = 0 THEN {<<>>}
    ELSE LET shorter == InjSeqs(S, n - 1)
         IN  shorter \cup
               UNION {{Append(q, x) : x \in S \ Range(q)} : q \in shorter}

WhereisAnswers ==
    UNION { { [i \in DOMAIN us |-> [uuid |-> us[i], urls |-> ul[i]]] :
                ul \in [DOMAIN us -> UrlLists] } :
            us \in InjSeqs(Uuids, MaxWhereis) }

RemoteConfigs ==
    { << [name |-> "origin", uuid |-> a, url |-> b],
         [name |-> "mirror", uuid |-> c, url |-> d] >> :
        a \in Uuids \cup {NoUuid}, b \in BaseUrls,
        c \in Uuids \cup {NoUuid}, d \in BaseUrls }

\* The registry answers for K1 are drawn; nothing calls into the adapter.
InitUrls ==
    /\ active = {}
    /\ datasets = AllDatasets
    /\ objects = {}
    /\ \E w \in WhereisAnswers, r \in RemoteConfigs, i \in RuleSets :
          reg = [k \in Keys |->
                    IF k = "K1"
                    THEN [whereis |-> w, remotes |-> r, insteadOf |-> i]
                    ELSE NoRemotes]
    /\ remote = [u \in CandidateUrls |-> "notfound"]
    /\ InitAdapter

\* list(get_urls(annex, relpath, "K1"))
GetUrls ==
    /\ ~urls.done
    /\ urls' = [done |-> TRUE, seq |-> get_urls(reg["K1"], "K1")]
    /\ UNCHANGED <<active, datasets, objects, reg, remote, annexes, built,
                   released, memo, cache, frame>>

NextUrls == GetUrls

SpecUrls == InitUrls /\ [][NextUrls]_vars

\* ------------------------------------------------------------------ claims

\* The full candidate sequence of the call in frame f.
Candidates(f) == get_urls(reg[f.key], f.key)

\* Frames of open calls, and of those that have returned or raised.
OpenFrames == {frame[t] : t \in {u \in Threads : frame[u].op = "open"}}

OpenDone == {f \in OpenFrames : f.pc = "done"}

\* C1: for a file classified NO_CONTENT (TrackedAbsent), the URLs handed to
\* fs.open are at every moment a prefix of the sequence get_urls yields,
\* and when open returns a handle it is the handle of the last URL
\* attempted: that URL opens, every candidate before it was attempted and
\* did not open, and no candidate after it was attempted.
C1_FirstSuccessInOrder ==
    \A f \in OpenFrames :
        f.fstate = NO_CONTENT =>
            /\ IsPrefix(f.attempts, Candidates(f))
            /\ (f.result.kind = "handle" =>
                  /\ f.attempts # <<>>
                  /\ f.result = Handle("remote", Last(f.attempts))
                  /\ remote[Last(f.attempts)] = "ok"
                  /\ \A i \in 1..Len(f.attempts) - 1 :
                        remote[f.attempts[i]] # "ok")

\* C1 witness: open returned the handle of a candidate that is neither the
\* first nor the last of the sequence.
C1_Witness ==
    \E f \in OpenDone :
        /\ f.fstate = NO_CONTENT
        /\ f.result.kind = "handle"
        /\ Len(f.attempts) >= 2
        /\ Len(f.attempts) < Len(Candidates(f))

\* C2 (as claimed): for a file classified NO_CONTENT, open raises the
\* "no usable URL" IOError exactly when no candidate can be opened, and
\* returns a handle whenever some candidate can be opened.
C2_NoUsableSourceIffAllFail ==
    \A f \in OpenDone :
        f.fstate = NO_CONTENT =>
            LET openable == {i \in DOMAIN Candidates(f) :
                                remote[Candidates(f)[i]] = "ok"}
            IN  /\ (f.result = Error("IOError")) <=> (openable = {})
                /\ (openable # {}) => f.result.kind = "handle"

\* C3: for a file classified HAS_CONTENT or NOT_ANNEXED, open never calls
\* get_urls or fs.open, and it ends by calling the built-in open on the
\* path, whose outcome is the call's outcome.
C3_LocalOpenOnly ==
    \A f \in OpenFrames :
        f.fstate \in {HAS_CONTENT, NOT_ANNEXED} =>
            /\ ~f.gen
            /\ f.attempts = <<>>
            /\ f.pc = "done" =>
                  /\ f.loc
                  /\ f.result \in {Handle("local", f.path),
                                   Error("FileNotFoundError")}

\* C3 witness: open of an entry with local content returned a local handle.
C3_Witness ==
    \E f \in OpenDone :
        /\ f.fstate = HAS_CONTENT
        /\ f.loc
        /\ f.result = Handle("local", f.path)

\* The accepted modes, the outside-root test and the registry state as the
\* claims name them.
ReadModes == {"r", "rb", "rt"}

OutsideRoot(path) == ~IsPrefix(Top, path)

\* Thread t starts a call of open in this step.
StartsOpen(t) ==
    /\ frame[t].pc \in {"idle", "done"}
    /\ frame'[t] # frame[t]
    /\ frame'[t].op = "open"

RegistryUntouched(f) ==
    /\ f.annex = NoHandle
    /\ f.q = NoHandle
    /\ f.fstate = ""
    /\ f.key = ""

NoEnclosingDataset(path) == \A d \in datasets : ~IsPrefix(d, Front(path))

\* C5 (as claimed): for every path under the top-level root with no
\* enclosing dataset, the path is classified NOT_ANNEXED and open opens it
\* from local disk.
C5_FallsThroughToLocalOpen ==
    \A f \in OpenDone :
        (/\ f.mode \in ReadModes
         /\ ~OutsideRoot(f.path)
         /\ NoEnclosingDataset(f.path)) =>
            /\ f.fstate = NOT_ANNEXED
            /\ f.loc
            /\ f.result = Handle("local", f.path)

\* C5 (amended): for every path under the top-level root with no enclosing
\* dataset, open with a read mode raises the ValueError "Path not under
\* DataLad" in the call's first step: nothing is classified or memoized,
\* no handle is made and neither the built-in open nor get_urls is called.
C5_NoDatasetRaises ==
    /\ [](\A f \in OpenDone :
            (/\ f.mode \in ReadModes
             /\ ~OutsideRoot(f.path)
             /\ NoEnclosingDataset(f.path)) =>
                /\ f.result = Error("NotUnderDataLad")
                /\ RegistryUntouched(f)
                /\ ~f.loc
                /\ ~f.gen)
    /\ [][\A t \in Threads :
            (/\ StartsOpen(t)
             /\ frame'[t].mode \in ReadModes
             /\ ~OutsideRoot(frame'[t].path)
             /\ NoEnclosingDataset(frame'[t].path)) =>
                /\ frame'[t].pc = "done"
                /\ UNCHANGED <<annexes, built, released, memo>>]_vars

\* C5 witness: open of an entry under the root, in a layout where no
\* directory above it holds a repository, raised "Path not under DataLad".
C5_Witness ==
    \E f \in OpenDone :
        /\ f.mode \in ReadModes
        /\ ~OutsideRoot(f.path)
        /\ NoEnclosingDataset(f.path)
        /\ f.result = Error("NotUnderDataLad")

\* C6: open with a mode other than "r", "rb", "rt" raises
\* NotImplementedError in the call's first step and does nothing else: no
\* dataset root is located, no handle is made or looked up, nothing is
\* classified or memoized, and neither the built-in open, get_urls nor
\* fs.open is called.
C6_UnsupportedModeFirst ==
    /\ [](\A f \in OpenFrames :
            f.mode \notin ReadModes =>
                /\ f.pc = "done"
                /\ f.result = Error("NotImplementedError")
                /\ f.dspath = None
                /\ RegistryUntouched(f)
                /\ ~f.loc
                /\ ~f.gen
                /\ f.attempts = <<>>)
    /\ [][\A t \in Threads :
            (StartsOpen(t) /\ frame'[t].mode \notin ReadModes) =>
                UNCHANGED <<annexes, built, released, memo, cache>>]_vars

\* C6 witness: open(path, "w") raised NotImplementedError.
C6_Witness ==
    \E f \in OpenDone :
        f.mode = "w" /\ f.result = Error("NotImplementedError")

\* C7 (as claimed): whatever the interleaving of the callers, at most one
\* AnnexRepo is ever constructed for a dataset root, and any two callers
\* working under the same root hold the same handle.
C7_OneHandlePerRoot ==
    /\ \A d \in Dirs : built[d] <= 1
    /\ \A t, u \in Threads :
          (/\ frame[t].annex # NoHandle
           /\ frame[u].annex # NoHandle
           /\ frame[t].annex.root = frame[u].annex.root) =>
              frame[t].annex = frame[u].annex

\* C8 (as claimed): no two callers have a batched registry query in flight
\* on the same handle at the same time.
C8_OneQueryInFlightPerHandle ==
    \A t, u \in Threads :
        (t # u /\ frame[t].q # NoHandle) => frame[t].q # frame[u].q

\* C9 (as claimed): once open has entered the candidate loop, the only
\* error it can end with is the "no usable URL" IOError, raised after every
\* candidate has been attempted.
C9_OnlyNoUsableSourceEscapes ==
    \A f \in OpenDone :
        (f.gen /\ f.result.kind = "error") =>
            /\ f.result = Error("IOError")
            /\ f.attempts = Candidates(f)

\* The synthesized candidates of the drawn registry answers.
Synth == SynthUrls(reg["K1"], "K1")

\* The place of each remote of the whereis answer in that answer.
WhereisPos(ws, ru) == CHOOSE i \in DOMAIN ws : ws[i].uuid = ru

\* C10 (as claimed): every synthesized candidate of a remote whose base
\* URL ends in "/.git" comes before every synthesized candidate of a remote
\* whose base URL does not, and for one remote and one nesting the
\* hashdirlower URL comes before the hashdirmixed URL.
C10_GitDirRemotesFirstLowerFirst ==
    urls.done =>
        LET sy == Synth
        IN  \A i, j \in DOMAIN sy :
                /\ (sy[i].gitdir /\ ~sy[j].gitdir) => i < j
                /\ (/\ sy[i].ru = sy[j].ru
                    /\ sy[i].nested = sy[j].nested
                    /\ sy[i].bucket = "lower"
                    /\ sy[j].bucket = "mixed") => i < j

\* C10 (amended): the synthesized candidates follow the explicit URLs,
\* grouped by remote in the order of the whereis answer; for a remote whose
\* base URL ends in "/.git" the hashdirmixed URL comes before the
\* hashdirlower URL; for any other HTTP(S) remote the order is hashdirlower,
\* hashdirmixed, ".git/" + hashdirlower, ".git/" + hashdirmixed.
C10_PerRemoteOrder ==
    urls.done =>
        LET sy    == Synth
            ws    == reg["K1"].whereis
            known == Len(KnownUrls(ws))
            pos   == [i \in DOMAIN sy |-> WhereisPos(ws, sy[i].ru)]
        IN  /\ Len(urls.seq) = known + Len(sy)
            /\ \A i \in DOMAIN sy :
                  /\ urls.seq[known + i] = sy[i].url
                  /\ ("hashdirlower/" \in Range(sy[i].url))
                        <=> (sy[i].bucket = "lower")
                  /\ ("hashdirmixed/" \in Range(sy[i].url))
                        <=> (sy[i].bucket = "mixed")
            /\ \A i, j \in DOMAIN sy :
                  i < j =>
                    /\ pos[i] <= pos[j]
                    /\ sy[i].ru = sy[j].ru =>
                          IF sy[i].gitdir
                          THEN /\ sy[i].bucket = "mixed"
                               /\ sy[j].bucket = "lower"
                          ELSE /\ sy[i].nested => sy[j].nested
                               /\ sy[i].nested = sy[j].nested =>
                                     /\ sy[i].bucket = "lower"
                                     /\ sy[j].bucket = "mixed"

\* C10 witness: the generator yielded the four candidates of a work-tree
\* remote before the two of a ".git" remote.
C10_Witness ==
    /\ urls.done
    /\ LET sy == Synth
       IN  \E i, j \in DOMAIN sy :
              /\ i < j
              /\ ~sy[i].gitdir
              /\ sy[j].gitdir
              /\ sy[j].bucket = "mixed"
              /\ urls.seq[Len(KnownUrls(reg["K1"].whereis)) + j] = sy[j].url

\* Every URL the drawn whereis answer records, remote by remote in the
\* order of the answer.
Recorded ==
    Flatten([i \in DOMAIN reg["K1"].whereis |-> reg["K1"].whereis[i].urls])

\* The URL's scheme is http or https, in either case.
IsHttpScheme(u) == u[1] \in {"http://", "https://", "HTTP://", "HTTPS://"}

\* C11: the sequence get_urls yields starts with every recorded HTTP(S) URL
\* of every remote of the whereis answer, in the order of the answer;
\* everything after them is a synthesized annex/objects URL; a recorded URL
\* that is not HTTP(S) is not yielded at all.
C11_KnownUrlsFirst ==
    urls.done =>
        LET rec  == Recorded
            http == SelectSeq(rec, IsHttpScheme)
        IN  /\ Len(urls.seq) >= Len(http)
            /\ SubSeq(urls.seq, 1, Len(http)) = http
            /\ \A i \in Len(http) + 1 .. Len(urls.seq) :
                  "annex/objects/" \in Range(urls.seq[i])
            /\ \A u \in Range(rec) :
                  ~IsHttpScheme(u) => u \notin Range(urls.seq)

\* C11 witness: two remotes record three URLs, one of them not HTTP(S) and
\* one with an upper-case scheme, and synthesized candidates follow.
C11_Witness ==
    /\ urls.done
    /\ Len(reg["K1"].whereis) = 2
    /\ FtpUrl \in Range(Recorded)
    /\ Len(SelectSeq(Recorded, IsHttpScheme)) = 2
    /\ SubSeq(urls.seq, 1, 2) = SelectSeq(Recorded, IsHttpScheme)
    /\ Len(urls.seq) > 2

\* The configured remotes of the drawn answers that have both an annex-uuid
\* and a URL, and the base URL that counts for a uuid: the rewritten URL of
\* the last such remote carrying it.
Configured ==
    {i \in DOMAIN reg["K1"].remotes :
        /\ reg["K1"].remotes[i].uuid # NoUuid
        /\ reg["K1"].remotes[i].url # None}

HasHttpBase(ru) ==
    \E i \in Configured :
        /\ reg["K1"].remotes[i].uuid = ru
        /\ \A j \in Configured :
              reg["K1"].remotes[j].uuid = ru => j <= i
        /\ IsHttpScheme(rewrite_url(reg["K1"].insteadOf,
                                    reg["K1"].remotes[i].url))

\* C12 (as claimed): the sequence is empty exactly when the whereis answer
\* lists no remote and no configured remote has an HTTP(S) URL.
C12_EmptyIffNoRemoteAtAll ==
    urls.done =>
        (urls.seq = <<>>) <=>
            (/\ reg["K1"].whereis = <<>>
             /\ \A i \in DOMAIN reg["K1"].remotes :
                   \/ reg["K1"].remotes[i].url = None
                   \/ ~IsHttpScheme(rewrite_url(reg["K1"].insteadOf,
                                                reg["K1"].remotes[i].url)))

\* C12 (amended): the sequence is fixed by the registry answers, and it is
\* empty exactly when no remote of the whereis answer records an HTTP(S)
\* URL and none of them has an HTTP(S) base URL, that is: its uuid is the
\* annex-uuid of a configured remote, and the URL of the last configured
\* remote with that uuid, after the insteadOf rewriting, is HTTP(S).
C12_EmptyIffNothingUsable ==
    urls.done =>
        /\ urls.seq = get_urls(reg["K1"], "K1")
        /\ (urls.seq = <<>>) <=>
              \A i \in DOMAIN reg["K1"].whereis :
                  /\ \A u \in Range(reg["K1"].whereis[i].urls) :
                        ~IsHttpScheme(u)
                  /\ ~HasHttpBase(reg["K1"].whereis[i].uuid)

\* C12 witness: the sequence is empty although the whereis answer lists a
\* remote and a configured remote has an HTTP(S) URL.
C12_Witness ==
    /\ urls.done
    /\ urls.seq = <<>>
    /\ reg["K1"].whereis # <<>>
    /\ \E i \in Configured : IsHttpScheme(reg["K1"].remotes[i].url)

\* C13 (as claimed): no URL occurs twice in the sequence get_urls yields.
C13_NoDuplicateCandidates ==
    urls.done =>
        \A i, j \in DOMAIN urls.seq :
            urls.seq[i] = urls.seq[j] => i = j

\* The frames whose call has a result of get_file_state, and the arguments
\* get_file_state was called with.
ClassifiedFrames == {frame[t] : t \in {u \in Threads : frame[u].fstate # ""}}

RelPath(f) == relative_to(f.path, f.dspath)

\* C14: with the file system and the registry unchanged, any two calls of
\* get_file_state with the same (dataset_path, relpath) return the same
\* (FileState, key) pair, and that pair is the one the cache holds for the
\* arguments.
C14_ClassifyIdempotent ==
    /\ \A f, g \in ClassifiedFrames :
          (f.annex.root = g.annex.root /\ RelPath(f) = RelPath(g)) =>
              (f.fstate = g.fstate /\ f.key = g.key)
    /\ \A f \in ClassifiedFrames :
          \A m \in MemoHit(f.annex.root, RelPath(f)) :
              m.fstate = f.fstate /\ m.key = f.key

\* C14 witness: two calls for the same small regular entry have both
\* returned, on one handle, with the same tracked state and key.
C14_Witness ==
    /\ frame["t1"].pc = "done"
    /\ frame["t2"].pc = "done"
    /\ frame["t1"].path = FileS
    /\ frame["t2"].path = FileS
    /\ frame["t1"].fstate = HAS_CONTENT
    /\ frame["t2"].fstate = HAS_CONTENT
    /\ frame["t1"].key = "K2"
    /\ frame["t2"].key = "K2"
    /\ built[Top] = 1

\* What get_file_state computes for entry p of dataset ds from the file
\* system and the registry as they are in the current state.
StateNow(ds, p) ==
    IF FileSystem[p].kind = "symlink" THEN SymlinkState(ds, p).fstate
    ELSE IF FileSystem[p].size < SizeThreshold /\ is_under_annex_reply(p)
         THEN IF file_has_content_reply(ds, p)
              THEN HAS_CONTENT ELSE NO_CONTENT
         ELSE NOT_ANNEXED

\* C15 (as claimed): whenever a call of get_file_state returns, the state
\* it returns is the one that matches the file system at that moment,
\* whatever content was fetched or dropped between the calls.
C15_StateMatchesFileSystem ==
    [][\A t \in Threads :
          (/\ frame[t].pc \in {"classify", "is_under_annex",
                               "file_has_content"}
           /\ frame'[t].pc = "dispatch") =>
              frame'[t].fstate = StateNow(frame[t].annex.root, frame[t].path)
      ]_vars

\* The handles the map holds.
MapHandles == {annexes[d] : d \in Dirs} \ {NoHandle}

\* Thread t runs __exit__ in this step.
StartsExit(t) ==
    /\ frame[t].pc \in {"idle", "done"}
    /\ frame'[t] # frame[t]
    /\ frame'[t].op = "exit"

\* C16: __exit__ clears the batched processes of every handle of the map
\* and empties the map, raising nothing; called on an empty map it changes
\* nothing; a call that follows constructs a new handle for its root, so a
\* call at work never holds or queries a handle whose processes were
\* cleared, and a cleared handle is never in the map.
C16_TeardownReleasesAll ==
    /\ [](/\ MapHandles \cap released = {}
          /\ \A t \in Threads :
                (frame[t].pc \notin {"idle", "done"}) =>
                    /\ frame[t].annex \notin released
                    /\ frame[t].q \notin released)
    /\ [][\A t \in Threads :
            StartsExit(t) =>
                /\ frame'[t].pc = "done"
                /\ frame'[t].result.kind # "error"
                /\ MapHandles \subseteq released'
                /\ released' = released \cup MapHandles
                /\ annexes' = [d \in Dirs |-> NoHandle]
                /\ (MapHandles = {}) =>
                      UNCHANGED <<annexes, released, built, memo, cache>>
         ]_vars

\* C16 witness: after a teardown that released the first handle of the top
\* dataset, an open has returned using a second handle constructed for
\* that root.
C16_Witness ==
    /\ released = {[root |-> Top, n |-> 1]}
    /\ built[Top] = 2
    /\ frame["t1"].op = "open"
    /\ frame["t1"].pc = "done"
    /\ frame["t1"].annex = [root |-> Top, n |-> 2]
    /\ frame["t1"].result.kind = "handle"

\* The symbolic links of the tree and the absolute, normalized path each
\* one points to.
Symlinks == {FileA, FileSub}

LinkTarget ==
    (FileA :> <<"d", "top", ".git", "annex", "objects",
                "XX", "YY", "K1", "K1">>)
 @@ (FileSub :> <<"d", "top", "sub", ".git", "annex", "objects",
                  "XX", "YY", "K3", "K3">>)

\* The frames of calls that are in, or past, get_file_state for a link.
SymlinkFrames ==
    {frame[t] : t \in {u \in Threads : frame[u].path \in Symlinks}}

\* C18: for a symbolic link get_file_state sends no query to the registry;
\* it returns NOT_ANNEXED and no key when the normalized link target is not
\* under <dataset>/.git/annex/objects, and otherwise the target's last
\* segment as the key, with HAS_CONTENT when the target exists and
\* NO_CONTENT when it does not; a key is returned exactly when the state
\* is not NOT_ANNEXED.
C18_SymlinkClassifiedFromTarget ==
    \A f \in SymlinkFrames :
        /\ f.pc \notin {"is_under_annex", "get_file_key", "file_has_content"}
        /\ f.fstate # "" =>
              LET target == LinkTarget[f.path]
                  inside == IsPrefix(f.annex.root \o
                                       <<".git", "annex", "objects">>, target)
              IN  /\ ~inside => (f.fstate = NOT_ANNEXED /\ f.key = "")
                  /\ (inside /\ target \in objects) =>
                        (f.fstate = HAS_CONTENT /\ f.key = Last(target))
                  /\ (inside /\ target \notin objects) =>
                        (f.fstate = NO_CONTENT /\ f.key = Last(target))
                  /\ (f.key # "") <=> (f.fstate # NOT_ANNEXED)

\* C18 witness: a link of the subdataset whose stored target goes through
\* ".." was classified NO_CONTENT with the key its target names.
C18_Witness ==
    \E f \in SymlinkFrames :
        /\ f.path = FileSub
        /\ f.annex.root = Sub
        /\ f.fstate = NO_CONTENT
        /\ f.key = "K3"
        /\ f.pc = "done"

\* The frames of calls for an entry that is not a symbolic link.
RegularFrames ==
    {frame[t] : t \in {u \in Threads :
                          /\ frame[u].path \in Paths
                          /\ FileSystem[frame[u].path].kind # "symlink"}}

\* C19: for an entry that is not a symbolic link, get_file_state queries
\* the registry only when the entry is smaller than 1024 bytes.  An entry
\* of 1024 bytes or more is NOT_ANNEXED with no key and no query, tracked
\* or not.  A smaller entry the registry reports as under annex gets its
\* registry key, with HAS_CONTENT when the registry reports content and
\* NO_CONTENT when it does not; a smaller entry the registry does not
\* report is NOT_ANNEXED with no key.
C19_RegularClassifiedByRegistry ==
    \A f \in RegularFrames :
        LET e == FileSystem[f.path]
        IN  /\ e.size >= 1024 =>
                /\ f.pc \notin {"is_under_annex", "get_file_key",
                                "file_has_content"}
                /\ f.fstate \in {"", NOT_ANNEXED}
                /\ f.key = ""
            /\ (e.size < 1024 /\ f.fstate # "") =>
                IF e.regkey # ""
                THEN /\ f.key = e.regkey
                     /\ f.fstate =
                          IF f.annex.root \o <<".git", "annex", "objects",
                                               "XX", "YY", e.regkey, e.regkey>>
                                \in objects
                          THEN HAS_CONTENT ELSE NO_CONTENT
                ELSE f.fstate = NOT_ANNEXED /\ f.key = ""

\* C19 witness: an entry of exactly 1024 bytes that the registry tracks was
\* classified NOT_ANNEXED and opened from disk.
C19_Witness ==
    \E f \in RegularFrames :
        /\ f.path = FileEdge
        /\ f.fstate = NOT_ANNEXED
        /\ f.pc = "done"
        /\ f.loc

\* The call of thread t is at the statement annex = self.annexes[dataset_path]
\* of get_file_state: its entry is not a symbolic link, is smaller than the
\* threshold, and the cache holds no result for it.
AtMapLookup(t) ==
    /\ frame[t].pc = "classify"
    /\ FileSystem[frame[t].path].kind # "symlink"
    /\ FileSystem[frame[t].path].size < SizeThreshold
    /\ MemoHit(frame[t].annex.root, RelPath(frame[t])) = {}

\* C20 (as claimed): whenever a call is at the lookup of its dataset root
\* in the handle map, the map holds a handle for that root, and no call ends
\* with KeyError, whatever the interleaving of open, is_under_annex and
\* __exit__.
C20_HandlePresentAtLookup ==
    \A t \in Threads :
        /\ AtMapLookup(t) => annexes[frame[t].annex.root] # NoHandle
        /\ frame[t].result # Error("KeyError")

====
